---- MODULE Spec2Model ----
(***************************************************************************)
(* Model of the wahl-bot frontend session manager                          *)
(* (frontend/src/services/authService.js, class AuthService) and of the    *)
(* background-job tracker of the side bar                                  *)
(* (frontend/src/components/SideBar.jsx).                                   *)
(*                                                                         *)
(* JavaScript runs handlers to completion: between two awaits of a network *)
(* call nothing else runs, and the continuations of every waiter of a      *)
(* promise run in the microtask checkpoint of the task that settles it.    *)
(* An action below is therefore one task: the arrival of a response (or    *)
(* the firing of a timer, or a user gesture) together with every           *)
(* continuation it resumes, up to the next network await of each.          *)
(*                                                                         *)
(* Tokens are numbered 1, 2, ... in the order the server issues them; 0 is *)
(* null.  Timer handles are numbered the same way.  A refresh promise      *)
(* carries the number of the POST /auth/refresh call it wraps.            *)
(* window.location.href = '/login' is modelled as the assignment it is.    *)
(***************************************************************************)
EXTENDS Integers, Sequences, FiniteSets, Bags, TLC

\* ------------------------------------------------------------------ bounds
MaxCalls == 2
MaxRefresh == 2
MaxTok == 2
MaxPendingLogouts == 1
MaxJobs == 2
MaxSubmits == 1
MaxPolls == 3
MaxExpiresIn == 1800

\* HTTP statuses the server answers an authorized request with.
Unauthorized == 401
Statuses == {200, Unauthorized}

\* How a fetch of the service settles: a 2xx response, another response, or a
\* rejection (network error).
Outcomes == {"ok", "notok", "neterr"}

\* Who awaits a logout() call.
LogoutCallers == {"service", "provider", "all"}

VARIABLES
    accessToken,          \* AuthService.accessToken: 0 (null) or a token
    tokenRefreshTimeout,  \* AuthService.tokenRefreshTimeout: 0 or a timer handle
    refreshPromise,       \* AuthService._refreshPromise: 0 or a refresh number
    armed,                \* timer handles setTimeout holds and has not run or cleared
    issued,               \* tokens the server has issued so far
    refreshes,            \* the POST /auth/refresh calls made, in order: state, token
                          \* produced, timer callbacks awaiting, logout() ran meanwhile
    calls,                \* the apiRequest invocations
    loginPending,         \* a POST /auth/token is outstanding
    logoutPending,        \* POST /auth/logout calls outstanding (logout() awaiting)
    location,             \* window.location: "app" or "/login"
    failedSinceLogin,     \* a refresh attempt failed and no login succeeded since
    doomed,               \* armed timer handles that were armed when logout() was invoked
    \* ---- SideBar (component state, its interval, the requests it has in flight)
    mounted,              \* the SideBar component is mounted
    taskId,               \* useState taskId: 0 (null) or the task tracked
    taskStatus,           \* useState taskStatus: "null", "undefined" or a status
    loading,              \* useState loading
    error,                \* useState error: an error message is set
    pollIntervall,        \* the interval of the effect is armed
    reqs,                 \* bag of the requests of the SideBar handlers in flight
    server,               \* the backend's record of each task
    polls,                \* GET /tasks/{id} requests issued, per task
    callbacks,            \* getProgramList calls made on completion, per task
    terminal,             \* per task: the status recorded for it became terminal
    cancelled,            \* the unmount cleanup cleared an armed interval
    submitted,            \* submissions of the add-program form so far
    \* ---- the schedule of the proactive refresh
    schedule,             \* the expires_in of a response and the delay computed from it
    \* ---- AuthProvider (AuthContext.jsx) and the callers of the service
    isAuthenticated,      \* useState isAuthenticated
    authLoading,          \* useState loading of the AuthProvider
    init,                 \* the init() of the mount effect: where it is
    providerLogin,        \* AuthProvider.login: where it is, what it returned, and
                          \* what the login page did then
    providerLogout,       \* AuthProvider.logout calls awaiting authService.logout()
    logoutAll             \* authService.logoutAllDevices(): where it is

authVars == <<accessToken, tokenRefreshTimeout, refreshPromise, armed,
              issued, refreshes, calls, loginPending, logoutPending, location,
              failedSinceLogin, doomed>>

trackerVars == <<mounted, taskId, taskStatus, loading, error, pollIntervall, reqs,
                 server, polls, callbacks, terminal, cancelled, submitted>>

providerVars == <<isAuthenticated, authLoading, init, providerLogin, providerLogout,
                  logoutAll>>

appVars == <<schedule, providerVars>>

vars == <<authVars, trackerVars, appVars>>

\* apiRequest invocations: those of unnamed callers, and one slot each for the
\* GET /auth/users/me/ of init(), that of AuthProvider.login and the
\* POST /auth/logout-all of logoutAllDevices.
CallIds == 1..MaxCalls
InitCall == MaxCalls + 1
LoginCall == MaxCalls + 2
LogoutAllCall == MaxCalls + 3
AllCallIds == 1..(MaxCalls + 3)
JobIds == 1..MaxJobs
\* A task id as the component holds it: 0 is null or undefined.
TaskIds == 0..MaxJobs

IdleCall ==
    [pc |-> "idle", hdr1 |-> 0, st1 |-> 0, joined |-> 0, outAt |-> 0,
     got |-> 0, hdr2 |-> 0, st2 |-> 0, sends |-> 0, nrefresh |-> 0,
     out |-> "none", lo |-> FALSE]

\* --------------------------------------------------------------- helpers

\* The refresh network calls whose response has not arrived.
InFlight == {r \in 1..Len(refreshes) : refreshes[r].st = "inflight"}

OutstandingRefresh == IF InFlight = {} THEN 0 ELSE CHOOSE r \in InFlight : TRUE

\* scheduleTokenRefresh: clearTimeout of the held handle, then setTimeout.
ClearHeldNever(set) == set
ClearHeld(set) == IF tokenRefreshTimeout # 0 THEN set \ {tokenRefreshTimeout} ELSE set

ScheduleWithoutCancel(h) ==
    /\ armed' = armed \cup {h}
    /\ tokenRefreshTimeout' = h
    /\ doomed' = doomed \cap armed
ScheduleTokenRefresh(h) ==
    /\ armed' = ClearHeld(armed) \cup {h}
    /\ tokenRefreshTimeout' = h
    /\ doomed' = doomed \cap ClearHeld(armed)

\* refreshAccessToken, line 83: a refresh is in progress.
RefreshInProgressNever == FALSE
RefreshInProgress == refreshPromise # 0

\* refreshAccessToken, line 87: the new promise is stored in the field.
StorePromiseLost(r) == 0
StorePromise(r) == r

\* refreshAccessToken up to its first await: the promise the caller gets, the
\* calls made and the field afterwards.
CanInvokeRefresh == RefreshInProgress \/ Len(refreshes) < MaxRefresh

JoinedPromise == IF RefreshInProgress THEN refreshPromise ELSE Len(refreshes) + 1

RefreshesAfterInvoke(byTimer) ==
    IF RefreshInProgress
      THEN IF byTimer /\ refreshes[refreshPromise].st = "inflight"
             THEN [refreshes EXCEPT ![refreshPromise].tw = @ + 1]
             ELSE refreshes
      ELSE Append(refreshes, [st |-> "inflight", tok |-> 0, lo |-> FALSE,
                              tw |-> IF byTimer THEN 1 ELSE 0])

PromiseAfterInvoke ==
    IF RefreshInProgress THEN refreshPromise ELSE StorePromise(Len(refreshes) + 1)

\* The promise handed out is already rejected: _refreshPromise still holds it.
JoinsRejected == RefreshInProgress /\ refreshes[refreshPromise].st # "inflight"

\* logoutAllDevices, lines 212-215: its apiRequest has returned a response in
\* this step, so it goes on to call logout().
LogoutAllLogsOut ==
    /\ logoutAll.pc = "revoking"
    /\ calls'[LogoutAllCall].pc = "done"
    /\ calls'[LogoutAllCall].out \in {"resp1", "resp2"}

\* logout() called n times from catch handlers, followed by the redirect, and
\* once more by logoutAllDevices when its request has returned.
ForcedLogout(n) ==
    /\ logoutPending' = logoutPending + n + (IF LogoutAllLogsOut THEN 1 ELSE 0)
    /\ doomed' = IF n > 0 \/ LogoutAllLogsOut THEN armed ELSE doomed
    /\ location' = IF n > 0 THEN "/login" ELSE location

\* apiRequest, line 157: the header of the retry.
RetryHeaderStale(rec, tok) == rec.hdr1
RetryHeader(rec, tok) == IF tok # 0 THEN tok ELSE rec.hdr1

\* apiRequest returns or throws: the locals of the invocation are gone, what is
\* left is what its caller received and what the call did.
Finished(rec, how) ==
    [IdleCall EXCEPT !.pc = "done", !.out = how, !.st1 = rec.st1, !.st2 = rec.st2,
                     !.sends = rec.sends, !.nrefresh = rec.nrefresh,
                     !.lo = (how = "threw")]

\* apiRequest, lines 165-178: the retried response is returned as it is.
AfterRetryLoop(rec, status) ==
    IF status = Unauthorized
      THEN [rec EXCEPT !.pc = "sent2", !.st2 = status, !.sends = @ + 1]
      ELSE Finished([rec EXCEPT !.st2 = status], "resp2")
AfterRetry(rec, status) == Finished([rec EXCEPT !.st2 = status], "resp2")

\* apiRequest, catch (lines 170-175), for a call awaiting a refresh that rejects:
\* logout() is called, the page is redirected and the error is rethrown.
Rejected(rec) == Finished(rec, "threw")

\* apiRequest, lines 156-169, for a call whose awaited refresh fulfilled:
\* accessToken holds tok by then.
Retried(rec, tok) ==
    [rec EXCEPT !.pc = "sent2", !.got = tok, !.hdr2 = RetryHeader(rec, tok),
                !.sends = @ + 1]

Waiters(r) == {c \in AllCallIds : calls[c].pc = "awaitRefresh" /\ calls[c].joined = r}

\* apiRequest, lines 121-149: a request just sent with the token tok.
Sent(tok) == [IdleCall EXCEPT !.pc = "sent1", !.hdr1 = tok, !.sends = 1]

\* login, lines 29-37: the call fails when fetch rejects or response.ok is false.
LoginFailsOnlyOffline(answer) == answer = "neterr"
LoginFails(answer) == answer # "ok"

\* AuthProvider.login, lines 186-206: every failure is caught and false is
\* returned; the call never rejects.
ProviderLoginThrows(result) == FALSE

\* LoginPage.handleSubmit, lines 16-21, after login() settled: the error
\* message is set in the catch, navigate('/') is called otherwise; the value
\* login() returned is not looked at.
HandleSubmit(result) ==
    IF ProviderLoginThrows(result) THEN "error" ELSE "navigated"

\* logout, lines 188-196: the try/catch keeps a failed revocation from the caller.
LogoutRethrows(outcome) == outcome = "neterr"
LogoutThrows(outcome) == FALSE

\* ProtectedRoute, lines 5-14: what it renders.
ProtectedRouteEager(isLoading, authenticated) ==
    IF ~authenticated THEN "redirect" ELSE "children"
ProtectedRoute(isLoading, authenticated) ==
    IF isLoading THEN "loading"
    ELSE IF ~authenticated THEN "redirect" ELSE "children"

\* resp.ok of what apiRequest returned.
RespOk(rec) ==
    \/ rec.out = "resp1" /\ rec.st1 = 200
    \/ rec.out = "resp2" /\ rec.st2 = 200

\* init is awaiting the refresh r (AuthContext line 165).
InitAwaits(r) == init.pc = "refreshing" /\ init.awaits = r

\* The continuations of the callers whose apiRequest settled in this step:
\* init (AuthContext lines 167-181), AuthProvider.login (lines 191-200) and
\* logoutAllDevices (part_005 lines 212-215).  initCaught: the refresh init
\* awaited rejected in this step and its catch ran (lines 176-181); init
\* registered first on that promise, so a login continuation runs after it.
\* When the calls of init and of login settle in one step, by the same rejected
\* refresh, either continuation may come last.
AfterCalls(initCaught) ==
    LET initDone == init.pc = "fetchingUser" /\ calls'[InitCall].pc = "done"
        loginDone == providerLogin.pc = "fetchingUser" /\ calls'[LoginCall].pc = "done"
        allDone == logoutAll.pc = "revoking" /\ calls'[LogoutAllCall].pc = "done"
    IN  /\ init' = IF initDone \/ initCaught THEN [init EXCEPT !.pc = "done"] ELSE init
        /\ authLoading' = IF initDone \/ initCaught THEN FALSE ELSE authLoading
        /\ providerLogin' = IF loginDone
                              THEN [providerLogin EXCEPT !.pc = "idle", !.result = "true",
                                                         !.page = HandleSubmit("true")]
                              ELSE providerLogin
        /\ isAuthenticated' \in
              IF loginDone /\ initDone THEN {TRUE, RespOk(calls'[InitCall])}
              ELSE IF loginDone THEN {TRUE}
              ELSE IF initDone THEN {RespOk(calls'[InitCall])}
              ELSE IF initCaught THEN {FALSE}
              ELSE {isAuthenticated}
        /\ logoutAll' = IF ~allDone THEN logoutAll
                        ELSE IF LogoutAllLogsOut
                               THEN [logoutAll EXCEPT !.pc = "loggingOut"]
                               ELSE [logoutAll EXCEPT !.pc = "threw"]
        /\ UNCHANGED providerLogout

\* login lines 45-47 and refreshAccessToken lines 104-106, the same computation:
\* the lifetime in seconds (1800 when expires_in is missing or 0), the margin
\* kept before expiry, and the delay of the timer in milliseconds.  For the
\* integer lifetimes of the contract Math.floor(expiresIn * 0.2) is the integer
\* quotient by 5.
ExpiresIn(e) == IF e # 0 THEN e ELSE 30 * 60

Max(a, b) == IF a >= b THEN a ELSE b

RefreshBeforeNoMinimum(e) == e \div 5
RefreshBefore(e) == Max(60, e \div 5)

RefreshIn(e) == (ExpiresIn(e) - RefreshBefore(ExpiresIn(e))) * 1000

\* ---------------------------------------------------------------- Init
InitSession ==
    /\ accessToken = 0
    /\ tokenRefreshTimeout = 0
    /\ refreshPromise = 0
    /\ armed = {}
    /\ issued = 0
    /\ refreshes = <<>>
    /\ calls = [c \in AllCallIds |-> IdleCall]
    /\ loginPending = FALSE
    /\ logoutPending = 0
    /\ location = "app"
    /\ failedSinceLogin = FALSE
    /\ doomed = {}
    /\ mounted = TRUE
    /\ taskId = 0
    /\ taskStatus = "null"
    /\ loading = FALSE
    /\ error = FALSE
    /\ pollIntervall = FALSE
    /\ reqs = EmptyBag
    /\ server = [j \in JobIds |-> "none"]
    /\ polls = [j \in TaskIds |-> 0]
    /\ callbacks = [j \in TaskIds |-> 0]
    /\ terminal = [j \in TaskIds |-> "no"]
    /\ cancelled = FALSE
    /\ submitted = 0
    /\ isAuthenticated = FALSE
    /\ authLoading = TRUE
    /\ init = [pc |-> "idle", awaits |-> 0]
    /\ providerLogin = [pc |-> "idle", answer |-> "none", result |-> "none",
                        page |-> "form"]
    /\ providerLogout = [pending |-> 0, last |-> "none", threw |-> FALSE]
    /\ logoutAll = [pc |-> "idle", last |-> "none"]

Init ==
    /\ InitSession
    /\ schedule = [expires_in |-> 0, refreshIn |-> 0, by |-> "none"]

\* ------------------------------------------------------------- actions

\* login(), lines 23-33: the credentials are posted.
LoginStart ==
    /\ UNCHANGED <<trackerVars, appVars>>
    /\ ~loginPending
    /\ loginPending' = TRUE
    /\ UNCHANGED <<accessToken, tokenRefreshTimeout, refreshPromise, armed,
                   issued, refreshes, calls, logoutPending, location,
                   failedSinceLogin, doomed>>

\* login(), lines 35-50: POST /auth/token settled with answer "ok", "notok"
\* (response.ok false) or "neterr" (fetch rejected); and, when the caller is
\* AuthProvider.login, its continuation (AuthContext lines 188-205): the
\* GET /auth/users/me/ is sent, or false is returned.
LoginResponse(answer) ==
    /\ UNCHANGED <<trackerVars, schedule>>
    /\ loginPending
    /\ loginPending' = FALSE
    /\ IF ~LoginFails(answer)
         THEN /\ issued < MaxTok
              /\ issued' = issued + 1
              /\ accessToken' = issued + 1
              /\ ScheduleTokenRefresh(issued + 1)
              /\ failedSinceLogin' = FALSE
         ELSE UNCHANGED <<issued, accessToken, armed, tokenRefreshTimeout,
                          failedSinceLogin, doomed>>
    /\ IF providerLogin.pc = "authenticating"
         THEN IF ~LoginFails(answer)
                THEN /\ calls' = [calls EXCEPT ![LoginCall] = Sent(accessToken')]
                     /\ providerLogin' = [pc |-> "fetchingUser", answer |-> answer,
                                          result |-> "none", page |-> "form"]
                ELSE /\ providerLogin' = [pc |-> "idle", answer |-> answer,
                                          result |-> "false",
                                          page |-> HandleSubmit("false")]
                     /\ UNCHANGED calls
         ELSE UNCHANGED <<calls, providerLogin>>
    /\ UNCHANGED <<refreshPromise, refreshes, logoutPending, location>>
    /\ UNCHANGED <<isAuthenticated, authLoading, init, providerLogout, logoutAll>>

\* The timer callback of scheduleTokenRefresh, lines 64-71.
TimerFire(h) ==
    /\ UNCHANGED <<trackerVars, appVars>>
    /\ h \in armed
    /\ CanInvokeRefresh
    /\ armed' = armed \ {h}
    /\ refreshes' = RefreshesAfterInvoke(TRUE)
    /\ refreshPromise' = PromiseAfterInvoke
    /\ IF JoinsRejected
         THEN /\ logoutPending' = logoutPending + 1
              /\ doomed' = armed \ {h}
              /\ location' = "/login"
         ELSE /\ doomed' = doomed \ {h}
              /\ UNCHANGED <<logoutPending, location>>
    /\ UNCHANGED <<accessToken, tokenRefreshTimeout, issued, calls,
                   loginPending, failedSinceLogin>>

\* apiRequest, lines 121-149: the request is sent with the token held.
ApiRequestStart(c) ==
    /\ UNCHANGED <<trackerVars, appVars>>
    /\ calls[c].pc = "idle"
    /\ \A d \in CallIds : d < c => calls[d].pc # "idle"
    /\ calls' = [calls EXCEPT ![c] =
                   [@ EXCEPT !.pc = "sent1", !.hdr1 = accessToken, !.sends = 1]]
    /\ UNCHANGED <<accessToken, tokenRefreshTimeout, refreshPromise, armed,
                   issued, refreshes, loginPending, logoutPending, location,
                   failedSinceLogin, doomed>>

\* apiRequest, lines 145-157 and 170-178: the first response arrives.
ApiResponse(c, status) ==
    /\ UNCHANGED <<trackerVars, schedule>>
    /\ calls[c].pc = "sent1"
    /\ IF status # Unauthorized
         THEN /\ calls' = [calls EXCEPT ![c] =
                             Finished([@ EXCEPT !.st1 = status], "resp1")]
              /\ ForcedLogout(0)
              /\ UNCHANGED <<refreshes, refreshPromise>>
         ELSE /\ CanInvokeRefresh
              /\ refreshes' = RefreshesAfterInvoke(FALSE)
              /\ refreshPromise' = PromiseAfterInvoke
              /\ LET rec == [calls[c] EXCEPT !.st1 = status, !.nrefresh = @ + 1,
                                             !.joined = JoinedPromise,
                                             !.outAt = OutstandingRefresh]
                 IN  IF JoinsRejected
                       THEN /\ calls' = [calls EXCEPT ![c] = Rejected(rec)]
                            /\ ForcedLogout(1)
                       ELSE /\ calls' = [calls EXCEPT ![c] =
                                           [rec EXCEPT !.pc = "awaitRefresh"]]
                            /\ UNCHANGED <<logoutPending, doomed, location>>
    /\ AfterCalls(FALSE)
    /\ UNCHANGED <<accessToken, tokenRefreshTimeout, armed, issued,
                   loginPending, failedSinceLogin>>

\* refreshAccessToken, lines 89-110, and the continuations of its waiters
\* (apiRequest lines 156-175, the timer callback's catch lines 66-70).
\* outcome: "ok", "notok" (response.ok false), "neterr" (fetch or json() rejects).
RefreshResponse(r, outcome) ==
    /\ UNCHANGED <<trackerVars, schedule>>
    /\ r \in InFlight
    /\ IF outcome = "ok"
         THEN /\ issued < MaxTok
              /\ issued' = issued + 1
              /\ accessToken' = issued + 1
              /\ ScheduleTokenRefresh(issued + 1)
              /\ refreshPromise' = 0
              /\ refreshes' = [refreshes EXCEPT ![r] =
                                 [st |-> "ok", tok |-> issued + 1, tw |-> 0, lo |-> FALSE]]
              /\ calls' = [c \in AllCallIds |->
                             IF c \in Waiters(r) THEN Retried(calls[c], issued + 1)
                             ELSE IF c = InitCall /\ InitAwaits(r) THEN Sent(issued + 1)
                             ELSE calls[c]]
              /\ init' = IF InitAwaits(r) THEN [init EXCEPT !.pc = "fetchingUser"]
                                          ELSE init
              /\ UNCHANGED <<logoutPending, location, failedSinceLogin>>
              /\ UNCHANGED <<isAuthenticated, authLoading, providerLogin,
                             providerLogout, logoutAll>>
         ELSE /\ refreshPromise' = IF outcome = "notok" THEN 0 ELSE refreshPromise
              /\ refreshes' = [refreshes EXCEPT ![r] =
                                 [st |-> "failed", tok |-> 0, tw |-> 0, lo |-> FALSE]]
              /\ calls' = [c \in AllCallIds |->
                             IF c \in Waiters(r) THEN Rejected(calls[c]) ELSE calls[c]]
              /\ ForcedLogout(Cardinality(Waiters(r)) + refreshes[r].tw)
              /\ AfterCalls(InitAwaits(r))
              /\ failedSinceLogin' = TRUE
              /\ UNCHANGED <<issued, accessToken, armed, tokenRefreshTimeout>>
    /\ UNCHANGED <<loginPending>>

\* apiRequest, lines 165-178: the response of the retry arrives.
RetryResponse(c, status) ==
    /\ UNCHANGED <<trackerVars, schedule>>
    /\ calls[c].pc = "sent2"
    /\ calls' = [calls EXCEPT ![c] = AfterRetry(@, status)]
    /\ ForcedLogout(0)
    /\ AfterCalls(FALSE)
    /\ UNCHANGED <<accessToken, tokenRefreshTimeout, refreshPromise, armed,
                   issued, refreshes, loginPending, failedSinceLogin>>

\* logout(), lines 187-193, called by the user: the revocation is posted.
LogoutStart ==
    /\ UNCHANGED <<trackerVars, appVars>>
    /\ logoutPending < MaxPendingLogouts
    /\ logoutPending' = logoutPending + 1
    /\ doomed' = armed
    /\ UNCHANGED <<accessToken, tokenRefreshTimeout, refreshPromise, armed,
                   issued, refreshes, calls, loginPending, location, failedSinceLogin>>

\* logout(), lines 198-204, has run while these refresh calls were awaiting
\* their response: each is marked (lo) until its response arrives.
LoggedOutInFlight ==
    [r \in DOMAIN refreshes |->
        IF r \in InFlight THEN [refreshes[r] EXCEPT !.lo = TRUE] ELSE refreshes[r]]

\* The logout() calls in flight that neither AuthProvider.logout nor
\* logoutAllDevices awaits: those of the catch handlers and of unnamed callers.
UnawaitedLogouts ==
    logoutPending - providerLogout.pending
                  - (IF logoutAll.pc = "loggingOut" THEN 1 ELSE 0)

\* logout(), lines 194-204: the revocation of one logout() call settled with
\* outcome "ok", "notok" (a non-2xx response) or "neterr" (fetch rejected); and
\* the continuation of the caller that awaits it: AuthProvider.logout
\* (AuthContext lines 209-211) or logoutAllDevices (line 215).
LogoutSettle(who, outcome) ==
    /\ UNCHANGED <<trackerVars, schedule>>
    /\ logoutPending > 0
    /\ \/ who = "service" /\ UnawaitedLogouts > 0
       \/ who = "provider" /\ providerLogout.pending > 0
       \/ who = "all" /\ logoutAll.pc = "loggingOut"
    /\ logoutPending' = logoutPending - 1
    /\ IF LogoutThrows(outcome)
         THEN UNCHANGED <<accessToken, armed, tokenRefreshTimeout, doomed, refreshes>>
         ELSE /\ accessToken' = 0
              /\ refreshes' = LoggedOutInFlight
              /\ armed' = ClearHeld(armed)
              /\ tokenRefreshTimeout' = 0
              /\ doomed' = doomed \cap ClearHeld(armed)
    /\ providerLogout' =
          IF who = "provider"
            THEN [pending |-> providerLogout.pending - 1, last |-> outcome,
                  threw |-> LogoutThrows(outcome)]
            ELSE providerLogout
    /\ isAuthenticated' =
          IF who = "provider" /\ ~LogoutThrows(outcome) THEN FALSE ELSE isAuthenticated
    /\ logoutAll' =
          IF who = "all"
            THEN [pc |-> IF LogoutThrows(outcome) THEN "threw" ELSE "returned",
                  last |-> outcome]
            ELSE logoutAll
    /\ UNCHANGED <<refreshPromise, issued, calls, loginPending,
                   location, failedSinceLogin>>
    /\ UNCHANGED <<authLoading, init, providerLogin>>

\* --------------------------------------------------------------- SideBar
\* The SideBar handlers send every request through authService.apiRequest and
\* await it; here that call is the environment: it resolves with the response
\* the backend produced when it served the request, or it rejects (ok = FALSE:
\* apiRequest rethrew a failed refresh, or resp.json() failed).  A state update
\* of an unmounted component is dropped.  The effect of lines 32-46 runs in the
\* commit that follows a state update, which is part of the action making it.

Req(kind, job, body) == [kind |-> kind, job |-> job, body |-> body]
Send(bag, rq) == bag (+) SetToBag({rq})
Take(bag, rq) == bag (-) SetToBag({rq})
Pending == BagToSet(reqs)

\* SideBar effect, line 35: the interval is armed for these values.
IntervalArmedAnyStatus(m, id, st) == m /\ id # 0
IntervalArmed(m, id, st) == m /\ id # 0 /\ st = "processing"

\* setState of a mounted component; dropped after unmount.
SetState(old, new) == IF mounted THEN new ELSE old

\* The tasks the backend has created.
Assigned == {j \in JobIds : server[j] # "none"}
NextJob ==
    CHOOSE j \in JobIds : server[j] = "none" /\ \A i \in JobIds : i < j => server[i] # "none"

\* handleNewProgramSubmit, lines 53-70: the form is submitted and the upload sent.
Submit ==
    /\ mounted
    /\ submitted < MaxSubmits
    /\ submitted' = submitted + 1
    /\ loading' = TRUE
    /\ error' = FALSE
    /\ reqs' = Send(reqs, Req("upload", 0, "unserved"))
    /\ UNCHANGED <<mounted, taskId, taskStatus, pollIntervall, server, polls,
                   callbacks, terminal, cancelled>>
    /\ UNCHANGED <<authVars, appVars>>

\* handleNewProgramSubmit, lines 69-83: the upload settled; whatever its result
\* (outcome "ok", "notok" for a non-2xx response, "threw"), the ingest is sent.
UploadResponse(outcome) ==
    /\ BagIn(Req("upload", 0, "unserved"), reqs)
    /\ error' = IF outcome = "threw" THEN SetState(error, TRUE) ELSE error
    /\ reqs' = Send(Take(reqs, Req("upload", 0, "unserved")), Req("ingest", 0, "unserved"))
    /\ UNCHANGED <<mounted, taskId, taskStatus, loading, pollIntervall, server, polls,
                   callbacks, terminal, cancelled, submitted>>
    /\ UNCHANGED <<authVars, appVars>>

\* The backend serves POST /program/ingest: it creates the task and answers
\* {task_id, status}, the task being recorded at once or later ("missing"); or
\* it answers with an error body that holds neither field.
ServeIngest(st0, rec) ==
    /\ BagIn(Req("ingest", 0, "unserved"), reqs)
    /\ IF st0 = "error"
         THEN /\ reqs' = Send(Take(reqs, Req("ingest", 0, "unserved")),
                              Req("ingest", 0, "error"))
              /\ UNCHANGED server
         ELSE /\ rec \in {"missing", st0}
              /\ Cardinality(Assigned) < MaxJobs
              /\ server' = [server EXCEPT ![NextJob] = rec]
              /\ reqs' = Send(Take(reqs, Req("ingest", 0, "unserved")),
                              Req("ingest", NextJob, st0))
    /\ UNCHANGED <<mounted, taskId, taskStatus, loading, error, pollIntervall, polls,
                   callbacks, terminal, cancelled, submitted>>
    /\ UNCHANGED <<authVars, appVars>>

\* The task makes progress in the backend.
ServerProgress(j, st) ==
    /\ \/ server[j] = "missing" /\ st \in {"pending", "processing"}
       \/ server[j] = "pending" /\ st = "processing"
       \/ server[j] = "processing" /\ st \in {"completed", "failed"}
    /\ server' = [server EXCEPT ![j] = st]
    /\ UNCHANGED <<mounted, taskId, taskStatus, loading, error, pollIntervall, reqs,
                   polls, callbacks, terminal, cancelled, submitted>>
    /\ UNCHANGED <<authVars, appVars>>

\* handleNewProgramSubmit, lines 84-96: the ingest settled.  A body without
\* task_id and status gives undefined for both, and the poll is sent all the same.
IngestResponse(rq, ok) ==
    /\ BagIn(rq, reqs) /\ rq.kind = "ingest"
    /\ ok => rq.body # "unserved"
    /\ IF ok
         THEN LET id == rq.job
                  st == IF rq.body = "error" THEN "undefined" ELSE rq.body
              IN  /\ taskId' = SetState(taskId, id)
                  /\ taskStatus' = SetState(taskStatus, st)
                  /\ pollIntervall' = IntervalArmed(mounted, taskId', taskStatus')
                  /\ reqs' = Send(Take(reqs, rq), Req("poll", id, "unserved"))
                  /\ polls' = [polls EXCEPT ![id] = @ + 1]
                  /\ UNCHANGED <<loading, error>>
         ELSE /\ loading' = SetState(loading, FALSE)
              /\ error' = SetState(error, TRUE)
              /\ reqs' = Take(reqs, rq)
              /\ UNCHANGED <<taskId, taskStatus, pollIntervall, polls>>
    /\ UNCHANGED <<mounted, server, callbacks, terminal, cancelled, submitted>>
    /\ UNCHANGED <<authVars, appVars>>

\* The interval callback of the effect, lines 36-38.
Tick ==
    /\ pollIntervall
    /\ polls[taskId] < MaxPolls
    /\ reqs' = Send(reqs, Req("poll", taskId, "unserved"))
    /\ polls' = [polls EXCEPT ![taskId] = @ + 1]
    /\ UNCHANGED <<mounted, taskId, taskStatus, loading, error, pollIntervall, server,
                   callbacks, terminal, cancelled, submitted>>
    /\ UNCHANGED <<authVars, appVars>>

\* The backend serves GET /tasks/{id}: the status it holds, or 404 with a body
\* that has no status for a task it has no record of.
ServePoll(rq) ==
    /\ BagIn(rq, reqs) /\ rq.kind = "poll" /\ rq.body = "unserved"
    /\ LET b == IF rq.job = 0 \/ server[rq.job] \in {"none", "missing"}
                  THEN "notfound" ELSE server[rq.job]
       IN  reqs' = Send(Take(reqs, rq), Req("poll", rq.job, b))
    /\ UNCHANGED <<mounted, taskId, taskStatus, loading, error, pollIntervall, server,
                   polls, callbacks, terminal, cancelled, submitted>>
    /\ UNCHANGED <<authVars, appVars>>

\* pollTaskStatus, lines 120-128 and 133-147: the status request settled.
PollResponse(rq, ok) ==
    /\ BagIn(rq, reqs) /\ rq.kind = "poll"
    /\ ok => rq.body # "unserved"
    /\ IF ok
         THEN LET st == IF rq.body = "notfound" THEN "undefined" ELSE rq.body
              IN  /\ taskStatus' = SetState(taskStatus, st)
                  /\ terminal' = IF mounted /\ taskId = rq.job
                                      /\ st \in {"completed", "failed"}
                                   THEN [terminal EXCEPT ![rq.job] = st]
                                   ELSE terminal
                  /\ IF st = "completed" /\ rq.job # 0
                       THEN /\ callbacks' = [callbacks EXCEPT ![rq.job] = @ + 1]
                            /\ reqs' = Send(Take(reqs, rq), Req("list", rq.job, "unserved"))
                            /\ UNCHANGED <<loading, error>>
                       ELSE /\ reqs' = Take(reqs, rq)
                            /\ error' = IF st = "failed" THEN SetState(error, TRUE) ELSE error
                            /\ loading' = IF st = "failed" THEN SetState(loading, FALSE)
                                                           ELSE loading
                            /\ UNCHANGED callbacks
         ELSE /\ error' = SetState(error, TRUE)
              /\ loading' = SetState(loading, FALSE)
              /\ reqs' = Take(reqs, rq)
              /\ UNCHANGED <<taskStatus, terminal, callbacks>>
    /\ pollIntervall' = IntervalArmed(mounted, taskId, taskStatus')
    /\ UNCHANGED <<mounted, taskId, server, polls, cancelled, submitted>>
    /\ UNCHANGED <<authVars, appVars>>

\* pollTaskStatus, lines 128-132 and 140-147: getProgramList settled.
ListResponse(rq, ok) ==
    /\ BagIn(rq, reqs) /\ rq.kind = "list"
    /\ reqs' = Take(reqs, rq)
    /\ loading' = SetState(loading, FALSE)
    /\ taskStatus' = IF ok THEN SetState(taskStatus, "completed") ELSE taskStatus
    /\ error' = IF ok THEN error ELSE SetState(error, TRUE)
    /\ pollIntervall' = IntervalArmed(mounted, taskId, taskStatus')
    /\ UNCHANGED <<mounted, taskId, server, polls, callbacks, terminal, cancelled, submitted>>
    /\ UNCHANGED <<authVars, appVars>>

\* The SideBar unmounts: the cleanup of the effect, lines 41-45.
Unmount ==
    /\ mounted
    /\ mounted' = FALSE
    /\ pollIntervall' = FALSE
    /\ cancelled' = pollIntervall
    /\ UNCHANGED <<taskId, taskStatus, loading, error, reqs, server, polls, callbacks,
                   terminal, submitted>>
    /\ UNCHANGED <<authVars, appVars>>

NextTracker ==
    \/ Submit
    \/ \E o \in {"ok", "notok", "threw"} : UploadResponse(o)
    \/ \E st0 \in {"pending", "processing", "error"},
          rec \in {"missing", "pending", "processing"} : ServeIngest(st0, rec)
    \/ \E j \in JobIds, st \in {"pending", "processing", "completed", "failed"} :
          ServerProgress(j, st)
    \/ \E rq \in Pending, ok \in BOOLEAN : IngestResponse(rq, ok)
    \/ Tick
    \/ \E rq \in Pending : ServePoll(rq)
    \/ \E rq \in Pending, ok \in BOOLEAN : PollResponse(rq, ok)
    \/ \E rq \in Pending, ok \in BOOLEAN : ListResponse(rq, ok)
    \/ Unmount

SpecTracker == Init /\ [][NextTracker]_vars

\* ------------------------------------------------- a second job: deletion
\* handleDeleteProgram, lines 99-102: the deletion is confirmed in the modal
\* and DELETE /program/delete/{name} is sent.  Nothing disables the button
\* while another job is tracked; the runs explored are those in which the
\* deletion is requested while the submitted job is the tracked one.
DeleteProgram ==
    /\ mounted
    /\ taskId # 0
    /\ ~\E rq \in Pending : rq.kind = "delete"
    /\ Cardinality(Assigned) < MaxJobs
    /\ loading' = TRUE
    /\ reqs' = Send(reqs, Req("delete", 0, "unserved"))
    /\ UNCHANGED <<mounted, taskId, taskStatus, error, pollIntervall, server, polls,
                   callbacks, terminal, cancelled, submitted>>
    /\ UNCHANGED <<authVars, appVars>>

\* The backend serves DELETE /program/delete/{name}: it creates the deletion
\* task and answers {task_id, status}.
ServeDelete(st0) ==
    /\ BagIn(Req("delete", 0, "unserved"), reqs)
    /\ Cardinality(Assigned) < MaxJobs
    /\ server' = [server EXCEPT ![NextJob] = st0]
    /\ reqs' = Send(Take(reqs, Req("delete", 0, "unserved")), Req("delete", NextJob, st0))
    /\ UNCHANGED <<mounted, taskId, taskStatus, loading, error, pollIntervall, polls,
                   callbacks, terminal, cancelled, submitted>>
    /\ UNCHANGED <<authVars, appVars>>

\* handleDeleteProgram, lines 102-117: the deletion request settled; the task
\* answered becomes the tracked one and its first poll is sent.
DeleteResponse(rq, ok) ==
    /\ BagIn(rq, reqs) /\ rq.kind = "delete"
    /\ ok => rq.body # "unserved"
    /\ IF ok
         THEN /\ taskId' = SetState(taskId, rq.job)
              /\ taskStatus' = SetState(taskStatus, rq.body)
              /\ pollIntervall' = IntervalArmed(mounted, taskId', taskStatus')
              /\ reqs' = Send(Take(reqs, rq), Req("poll", rq.job, "unserved"))
              /\ polls' = [polls EXCEPT ![rq.job] = @ + 1]
              /\ UNCHANGED <<loading, error>>
         ELSE /\ loading' = SetState(loading, FALSE)
              /\ error' = SetState(error, TRUE)
              /\ reqs' = Take(reqs, rq)
              /\ UNCHANGED <<taskId, taskStatus, pollIntervall, polls>>
    /\ UNCHANGED <<mounted, server, callbacks, terminal, cancelled, submitted>>
    /\ UNCHANGED <<authVars, appVars>>

NextJobs ==
    \/ NextTracker
    \/ DeleteProgram
    \/ \E st0 \in {"pending", "processing"} : ServeDelete(st0)
    \/ \E rq \in Pending, ok \in BOOLEAN : DeleteResponse(rq, ok)

SpecJobs == Init /\ [][NextJobs]_vars


Next ==
    \/ LoginStart
    \/ \E a \in Outcomes : LoginResponse(a)
    \/ \E h \in 1..MaxTok : TimerFire(h)
    \/ \E c \in CallIds : ApiRequestStart(c)
    \/ \E c \in AllCallIds, s \in Statuses : ApiResponse(c, s)
    \/ \E r \in 1..MaxRefresh, o \in Outcomes : RefreshResponse(r, o)
    \/ \E c \in AllCallIds, s \in Statuses : RetryResponse(c, s)
    \/ LogoutStart
    \/ \E who \in LogoutCallers, o \in Outcomes : LogoutSettle(who, o)

Spec == Init /\ [][Next]_vars

\* ------------------------------------------------------- the application
\* The service as the application drives it: the init() of the AuthProvider
\* mount effect, AuthProvider.login and logout, and logoutAllDevices.  The
\* login form is reachable at any time without a reload (the Link of the
\* header, the history of the browser); the Logout button is rendered by the
\* header inside ProtectedRoute, when isAuthenticated is true.

\* AuthContext lines 159-165: the mount effect runs init, which calls
\* refreshAccessToken.
InitEffect ==
    /\ init.pc = "idle"
    /\ CanInvokeRefresh
    /\ refreshes' = RefreshesAfterInvoke(FALSE)
    /\ refreshPromise' = PromiseAfterInvoke
    /\ init' = [pc |-> "refreshing", awaits |-> JoinedPromise]
    /\ authLoading' = TRUE
    /\ UNCHANGED <<accessToken, tokenRefreshTimeout, armed, issued, calls,
                   loginPending, logoutPending, location, failedSinceLogin, doomed>>
    /\ UNCHANGED <<isAuthenticated, providerLogin, providerLogout, logoutAll>>
    /\ UNCHANGED <<trackerVars, schedule>>

\* AuthContext lines 186-188: login is called by the login page and calls
\* authService.login.
ProviderLogin ==
    /\ init.pc # "idle"
    /\ providerLogin.pc = "idle"
    /\ ~loginPending
    /\ loginPending' = TRUE
    /\ providerLogin' = [pc |-> "authenticating", answer |-> "none", result |-> "none",
                         page |-> "form"]
    /\ UNCHANGED <<accessToken, tokenRefreshTimeout, refreshPromise, armed,
                   issued, refreshes, calls, logoutPending, location,
                   failedSinceLogin, doomed>>
    /\ UNCHANGED <<isAuthenticated, authLoading, init, providerLogout, logoutAll>>
    /\ UNCHANGED <<trackerVars, schedule>>

\* App.jsx line 23 and AuthContext lines 208-209: the Logout button is clicked
\* and AuthProvider.logout calls authService.logout.
ProviderLogout ==
    /\ ProtectedRoute(authLoading, isAuthenticated) = "children"
    /\ isAuthenticated
    /\ logoutPending < MaxPendingLogouts
    /\ logoutPending' = logoutPending + 1
    /\ doomed' = armed
    /\ providerLogout' = [providerLogout EXCEPT !.pending = @ + 1]
    /\ UNCHANGED <<accessToken, tokenRefreshTimeout, refreshPromise, armed,
                   issued, refreshes, calls, loginPending, location, failedSinceLogin>>
    /\ UNCHANGED <<isAuthenticated, authLoading, init, providerLogin, logoutAll>>
    /\ UNCHANGED <<trackerVars, schedule>>

\* logoutAllDevices, lines 211-212: POST /auth/logout-all is sent through
\* apiRequest.
LogoutAllDevices ==
    /\ init.pc # "idle"
    /\ logoutAll.pc = "idle"
    /\ calls' = [calls EXCEPT ![LogoutAllCall] = Sent(accessToken)]
    /\ logoutAll' = [logoutAll EXCEPT !.pc = "revoking"]
    /\ UNCHANGED <<accessToken, tokenRefreshTimeout, refreshPromise, armed,
                   issued, refreshes, loginPending, logoutPending, location,
                   failedSinceLogin, doomed>>
    /\ UNCHANGED <<isAuthenticated, authLoading, init, providerLogin, providerLogout>>
    /\ UNCHANGED <<trackerVars, schedule>>

\* apiRequest: a fetch rejects (network error).  The first one, line 145, is
\* outside the try block and the rejection goes to the caller as it is; that of
\* the retry, line 165, is caught by lines 170-175.
ApiNetworkError(c) ==
    /\ calls[c].pc \in {"sent1", "sent2"}
    /\ IF calls[c].pc = "sent1"
         THEN /\ calls' = [calls EXCEPT ![c] = Finished(@, "neterr")]
              /\ ForcedLogout(0)
         ELSE /\ calls' = [calls EXCEPT ![c] = Rejected(@)]
              /\ ForcedLogout(1)
    /\ AfterCalls(FALSE)
    /\ UNCHANGED <<accessToken, tokenRefreshTimeout, refreshPromise, armed,
                   issued, refreshes, loginPending, failedSinceLogin>>
    /\ UNCHANGED <<trackerVars, schedule>>

NextApp ==
    \/ InitEffect
    \/ ProviderLogin
    \/ \E a \in Outcomes : LoginResponse(a)
    \/ \E h \in 1..MaxTok : TimerFire(h)
    \/ \E c \in AllCallIds, st \in Statuses : ApiResponse(c, st)
    \/ \E c \in AllCallIds : ApiNetworkError(c)
    \/ \E r \in 1..MaxRefresh, o \in Outcomes : RefreshResponse(r, o)
    \/ \E c \in AllCallIds, st \in Statuses : RetryResponse(c, st)
    \/ ProviderLogout
    \/ LogoutAllDevices
    \/ \E who \in LogoutCallers, o \in Outcomes : LogoutSettle(who, o)

SpecApp == Init /\ [][NextApp]_vars

\* ------------------------------------------------------------ the schedule
\* The delay of the refresh timer as a function of the expires_in of the
\* response: a response with any lifetime up to MaxExpiresIn seconds (0: the
\* field is missing) arrives, and login or refreshAccessToken computes the
\* delay it passes to scheduleTokenRefresh.
InitSchedule ==
    /\ InitSession
    /\ \E e \in 0..MaxExpiresIn :
          schedule = [expires_in |-> e, refreshIn |-> 0, by |-> "none"]

\* login, lines 44-48.
LoginSchedules ==
    /\ schedule.by = "none"
    /\ schedule' = [schedule EXCEPT !.refreshIn = RefreshIn(schedule.expires_in),
                                    !.by = "login"]
    /\ UNCHANGED <<authVars, trackerVars, providerVars>>

\* refreshAccessToken, lines 103-107.
RefreshSchedules ==
    /\ schedule.by = "none"
    /\ schedule' = [schedule EXCEPT !.refreshIn = RefreshIn(schedule.expires_in),
                                    !.by = "refresh"]
    /\ UNCHANGED <<authVars, trackerVars, providerVars>>

NextSchedule ==
    \/ LoginSchedules
    \/ RefreshSchedules

SpecSchedule == InitSchedule /\ [][NextSchedule]_vars

\* ================================================================ claims
\* The claims below are checked under Spec, the session manager.

Active(c) == calls[c].pc \in {"awaitRefresh", "sent2"}

\* C1 (single flight): at every instant at most one POST /auth/refresh is
\* outstanding, no step issues one while one is outstanding, and when a refresh
\* settles every apiRequest awaiting it receives its outcome: the token it
\* produced, or its failure.
C1_AtMostOneOutstanding == Cardinality(InFlight) <= 1
C1_WaitersGetOutcome ==
    /\ InFlight # {} => Len(refreshes') = Len(refreshes)
    /\ \A r \in InFlight : r \notin InFlight' =>
        \A c \in Waiters(r) :
            \/ /\ refreshes'[r].st = "ok"
               /\ calls'[c].pc = "sent2"
               /\ calls'[c].got = refreshes'[r].tok
            \/ /\ refreshes'[r].st = "failed"
               /\ calls'[c].pc = "done"
               /\ calls'[c].out = "threw"
C1_SingleFlight == [](C1_AtMostOneOutstanding) /\ [][C1_WaitersGetOutcome]_vars

\* C1 witness: two apiRequest calls both called refreshAccessToken while the
\* same refresh was outstanding and both received the token it produced.
C1_Witness ==
    \E c1, c2 \in CallIds :
        /\ c1 # c2
        /\ calls[c1].pc = "sent2" /\ calls[c2].pc = "sent2"
        /\ calls[c1].outAt # 0 /\ calls[c1].outAt = calls[c2].outAt
        /\ calls[c1].got = refreshes[calls[c1].outAt].tok
        /\ calls[c2].got = calls[c1].got

\* C2 (bounded retry): an apiRequest call sends its request at most twice and
\* calls refreshAccessToken at most once.
C2_BoundedRetry ==
    \A c \in CallIds : calls[c].sends <= 2 /\ calls[c].nrefresh <= 1

\* C2 witness: a call that was answered 401 twice has returned after two sends.
C2_Witness ==
    \E c \in CallIds :
        /\ calls[c].pc = "done"
        /\ calls[c].st1 = Unauthorized /\ calls[c].st2 = Unauthorized
        /\ calls[c].sends = 2 /\ calls[c].nrefresh = 1

\* C3 (persistent unauthorized is fatal), as claimed: a call answered 401, whose
\* refresh succeeded and whose retry was answered 401 again, fails to its caller
\* and has called logout().
C3_PersistentUnauthorizedFatal ==
    \A c \in CallIds :
        (calls[c].pc = "done" /\ calls[c].st1 = Unauthorized
                              /\ calls[c].st2 = Unauthorized)
            => (calls[c].out = "threw" /\ calls[c].lo)

\* C6 (teardown safety of logout), as claimed: a refresh timer that was pending
\* when logout() was called never fires a new POST /auth/refresh.
C6_NoTimerRefreshAfterLogout ==
    [][\A h \in doomed :
          ~(h \in armed /\ h \notin armed' /\ Len(refreshes') > Len(refreshes))]_vars

\* C8 (refresh failure is fatal), as claimed: once a refresh attempt has failed,
\* no POST /auth/refresh is issued until a login succeeds.
C8_NoRefreshAfterFailure ==
    [][failedSinceLogin => Len(refreshes') = Len(refreshes)]_vars

\* C9 (retry after refresh): the retry of a call that was answered 401 carries
\* the token produced by the refresh the call awaited, not the one it was first
\* sent with, and when the retry is answered 200 the caller receives the
\* response of the retry.
C9_RetryCarriesNewToken ==
    \A c \in CallIds :
        /\ calls[c].pc = "sent2" =>
              /\ refreshes[calls[c].joined].st = "ok"
              /\ calls[c].hdr2 = refreshes[calls[c].joined].tok
              /\ calls[c].hdr2 # calls[c].hdr1
        /\ (calls[c].pc = "done" /\ calls[c].st1 = Unauthorized /\ calls[c].st2 = 200)
              => calls[c].out = "resp2"

\* C9 witness: a call sent with a token was answered 401, awaited a refresh that
\* succeeded, and its retry was answered 200.
C9_Witness ==
    \E c \in CallIds :
        /\ calls[c].pc = "done" /\ calls[c].out = "resp2"
        /\ calls[c].st1 = Unauthorized /\ calls[c].st2 = 200

\* C10 as claimed: when a call is answered 401 while another call, outstanding
\* with the same token, has been answered 401 already, the two share one
\* refresh, in whatever order the 401 responses and the refresh response arrive.
C10_OneRefreshAnyOrder ==
    [][\A c1, c2 \in CallIds :
          (/\ calls[c1].pc = "sent1" /\ calls'[c1].st1 = Unauthorized
           /\ Active(c2) /\ calls[c2].hdr1 = calls[c1].hdr1)
          => calls'[c1].joined = calls[c2].joined]_vars

\* C10 as amended: a call whose 401 arrives while a refresh is outstanding issues
\* no refresh of its own but awaits that one, and the calls that awaited the
\* same refresh retry with the same token, the one it produced.
C10_ConvergeWhileOutstanding ==
    /\ \A c \in CallIds : Active(c) /\ calls[c].outAt # 0 =>
          calls[c].joined = calls[c].outAt
    /\ \A c1, c2 \in CallIds :
          (/\ calls[c1].pc = "sent2" /\ calls[c2].pc = "sent2"
           /\ calls[c1].joined = calls[c2].joined)
          => calls[c1].hdr2 = calls[c2].hdr2

\* C10 witness: one call started a refresh, a second was answered 401 while it
\* was outstanding, and both have retried with the same token.
C10_Witness ==
    \E c1, c2 \in CallIds :
        /\ calls[c1].pc = "sent2" /\ calls[c2].pc = "sent2"
        /\ calls[c1].outAt = 0
        /\ calls[c2].outAt = calls[c1].joined
        /\ calls[c1].hdr2 = calls[c2].hdr2

\* C19 (login stores the token, requests carry it): the step in which a login
\* succeeds leaves accessToken equal to the token returned and exactly one
\* refresh timer armed, the one held; and every request apiRequest sends, first
\* send or retry, carries the token held when it is sent, and no Authorization
\* header (0) when none is held.
C19_LoginStep ==
    (loginPending /\ ~loginPending' /\ issued' # issued) =>
        /\ accessToken' = issued'
        /\ armed' = {tokenRefreshTimeout'}
        /\ Cardinality(armed') = 1
C19_SendStep ==
    \A c \in CallIds :
        /\ (calls[c].pc = "idle" /\ calls'[c].pc = "sent1") =>
              calls'[c].hdr1 = accessToken
        /\ (calls[c].pc # "sent2" /\ calls'[c].pc = "sent2") =>
              calls'[c].hdr2 = accessToken'
C19_TokenStoredAndAttached == [][C19_LoginStep /\ C19_SendStep]_vars

\* C19 witness: a second login has replaced the token and the timer of the
\* first, and a request sent afterwards carries the second token.
C19_Witness ==
    /\ accessToken = 2 /\ armed = {2} /\ tokenRefreshTimeout = 2
    /\ \E c \in CallIds : calls[c].pc = "sent1" /\ calls[c].hdr1 = 2

\* C21 (the in-flight marker is cleared when a refresh finishes), as claimed:
\* in the step in which a POST /auth/refresh attempt finishes, by a success, a
\* non-success response or any other failure, _refreshPromise is null
\* afterwards, and a refreshAccessToken call made by apiRequest when no attempt
\* is in flight issues a new POST /auth/refresh.
C21_MarkerClearedWhenFinished ==
    [][/\ \A r \in InFlight : r \notin InFlight' => refreshPromise' = 0
       /\ \A c \in CallIds :
             (/\ calls[c].pc = "sent1"
              /\ calls'[c].nrefresh = calls[c].nrefresh + 1
              /\ InFlight = {})
             => Len(refreshes') = Len(refreshes) + 1]_vars

\* C22 (no state writes after logout), as claimed: when the response of a
\* refresh that was in flight while logout() ran arrives, and logout() has left
\* the access token absent and no timer armed, the step stores no token and
\* arms no timer.
C22_NoWriteByOvertakenRefresh ==
    [][\A r \in InFlight :
          (/\ refreshes[r].lo /\ r \notin InFlight'
           /\ accessToken = 0 /\ armed = {})
          => (accessToken' = 0 /\ armed' = {})]_vars

\* C26 (at most one refresh timer): in every state at most one refresh timer
\* is armed, and it is the one whose handle the service holds; and every step
\* that schedules a refresh leaves the new timer as the only one armed.
C26_OnlyHeldTimerArmed ==
    /\ Cardinality(armed) <= 1
    /\ armed \subseteq {tokenRefreshTimeout}
C26_ScheduleStep ==
    tokenRefreshTimeout' \notin {0, tokenRefreshTimeout} =>
        armed' = {tokenRefreshTimeout'}
C26_AtMostOneTimer == [](C26_OnlyHeldTimerArmed) /\ [][C26_ScheduleStep]_vars

\* C26 witness: the timer of a login was pending when a refresh started by an
\* apiRequest succeeded; only the timer the refresh scheduled is armed.
C26_Witness ==
    /\ Len(refreshes) = 1 /\ refreshes[1].st = "ok" /\ refreshes[1].tok = 2
    /\ \E c \in CallIds : calls[c].pc = "sent2" /\ calls[c].hdr1 = 1
                                              /\ calls[c].joined = 1 /\ calls[c].outAt = 0
    /\ armed = {2} /\ tokenRefreshTimeout = 2

\* The claims below are checked under SpecApp, the service driven by the
\* AuthProvider.

\* C11 (logout always clears local state): in the step in which a logout()
\* call returns, whatever the outcome of its revocation request, the access
\* token is absent, no refresh timer is armed and none is held; and the call
\* does not fail to the caller awaiting it: AuthProvider.logout goes on to
\* clear isAuthenticated, logoutAllDevices returns.
C11_LogoutStep ==
    /\ logoutPending' < logoutPending =>
          (accessToken' = 0 /\ armed' = {} /\ tokenRefreshTimeout' = 0)
    /\ providerLogout'.pending < providerLogout.pending =>
          (~providerLogout'.threw /\ ~isAuthenticated')
    /\ (logoutAll.pc = "loggingOut" /\ logoutAll'.pc # "loggingOut") =>
          logoutAll'.pc = "returned"
C11_LogoutClearsLocalState == [][C11_LogoutStep]_vars

\* C11 witness: a session was established, the Logout button was clicked, the
\* revocation request failed with a network error, and logout() has returned
\* with the token and the timer cleared.
C11_Witness ==
    /\ issued > 0
    /\ providerLogout.last = "neterr" /\ ~providerLogout.threw
    /\ providerLogout.pending = 0 /\ logoutPending = 0
    /\ accessToken = 0 /\ armed = {} /\ tokenRefreshTimeout = 0
    /\ ~isAuthenticated

\* C12 (logoutAllDevices always logs out locally), as claimed: in the step in
\* which logoutAllDevices() finishes, by returning or by failing with the error
\* of its revocation request, the access token is cleared and no refresh timer
\* is armed.
C12_LogoutAllAlwaysLogsOut ==
    [][(logoutAll.pc \notin {"returned", "threw"}
            /\ logoutAll'.pc \in {"returned", "threw"})
          => (accessToken' = 0 /\ armed' = {})]_vars

\* C13 (a failed login changes no state): in the step in which the login call
\* is answered with a non-success response, or fails, login() fails to its
\* caller (AuthProvider.login returns false and leaves isAuthenticated alone)
\* and the access token, the refresh timer and the in-flight refresh marker
\* are what they were before.
C13_FailedLoginStep ==
    (/\ providerLogin.pc = "authenticating"
     /\ providerLogin'.pc # "authenticating"
     /\ providerLogin'.answer # "ok")
    => /\ providerLogin'.result = "false"
       /\ isAuthenticated' = isAuthenticated
       /\ accessToken' = accessToken
       /\ tokenRefreshTimeout' = tokenRefreshTimeout
       /\ armed' = armed
       /\ refreshPromise' = refreshPromise
C13_FailedLoginNoChange == [][C13_FailedLoginStep]_vars

\* C13 witness: with a session established, a login was answered with a
\* non-success response and the session is intact.
C13_Witness ==
    /\ providerLogin.pc = "idle" /\ providerLogin.answer = "notok"
    /\ providerLogin.result = "false"
    /\ accessToken # 0 /\ armed = {accessToken} /\ isAuthenticated

\* C18 (startup gating): ProtectedRoute redirects to the login page only when
\* init has resolved and the user is not authenticated, never while the silent
\* refresh or the rest of init is unresolved; and when the silent refresh
\* fails, init catches the failure and resolves to unauthenticated in that
\* step (isAuthenticated false unless a login completes in the same step).
C18_RedirectOnlyWhenResolved ==
    ProtectedRoute(authLoading, isAuthenticated) = "redirect" =>
        (init.pc = "done" /\ ~isAuthenticated)
C18_FailedRefreshStep ==
    (/\ init.pc = "refreshing"
     /\ init'.pc # "refreshing"
     /\ refreshes'[init.awaits].st = "failed")
    => /\ init'.pc = "done"
       /\ ~authLoading'
       /\ providerLogin'.pc = providerLogin.pc => ~isAuthenticated'
C18_StartupGating == [](C18_RedirectOnlyWhenResolved) /\ [][C18_FailedRefreshStep]_vars

\* C18 witness: the silent refresh failed, init has resolved to unauthenticated
\* and ProtectedRoute redirects.
C18_Witness ==
    /\ init.pc = "done" /\ refreshes[init.awaits].st = "failed"
    /\ ~authLoading /\ ~isAuthenticated /\ location = "app"
    /\ ProtectedRoute(authLoading, isAuthenticated) = "redirect"

\* C30 (a failed login is reported and does not navigate), as claimed: in the
\* step in which a login submitted on the login page fails, the page shows its
\* error message and does not navigate to the protected route.
C30_FailedLoginReported ==
    [][(/\ providerLogin.pc = "authenticating"
        /\ providerLogin'.pc = "idle"
        /\ providerLogin'.answer # "ok")
       => providerLogin'.page = "error"]_vars

\* C20 (no authenticated but tokenless state), as claimed: in every state where
\* no logout and no redirect to the login page is pending, isAuthenticated
\* true implies that the service holds an access token.
C20_AuthenticatedHoldsToken ==
    (location = "app" /\ logoutPending = 0) =>
        (isAuthenticated => accessToken # 0)

\* The claims below are checked under SpecSchedule.

\* C17 as claimed: after a login or a refresh whose response says expires_in = E
\* the timer is set E - max(60, 0.2 E) seconds ahead, for every E; in
\* milliseconds, 1000 E - max(60000, 200 E).
C17_ScheduleAsClaimed ==
    schedule.by # "none" =>
        schedule.refreshIn =
            1000 * schedule.expires_in - Max(60000, 200 * schedule.expires_in)

\* C17 as amended: with E the lifetime (1800 when expires_in is missing or 0)
\* the timer is set a whole number of seconds ahead, E minus a margin m that
\* is the larger of 60 and the whole part of E / 5.
C17_ScheduleFloored ==
    schedule.by # "none" =>
        LET e == IF schedule.expires_in = 0 THEN 1800 ELSE schedule.expires_in
            m == e - (schedule.refreshIn \div 1000)
        IN  /\ schedule.refreshIn % 1000 = 0
            /\ m >= 60
            /\ 5 * m > e - 5
            /\ m = 60 \/ 5 * m <= e
            /\ (e = 1800 => schedule.refreshIn = 1440 * 1000)
            /\ (e = 120 => schedule.refreshIn = 60 * 1000)
            /\ (e = 300 => schedule.refreshIn = 240 * 1000)

\* C17 witness: a login answered with expires_in = 1800 has set the timer 1440
\* seconds ahead.
C17_Witness ==
    /\ schedule.by = "login" /\ schedule.expires_in = 1800
    /\ schedule.refreshIn = 1440000

\* C29 (the refresh is scheduled strictly in the future), as claimed: for every
\* positive expires_in of a login or refresh response the delay computed is
\* greater than zero.
C29_DelayPositive ==
    (schedule.by # "none" /\ schedule.expires_in > 0) => schedule.refreshIn > 0

\* The claims below are checked under SpecTracker, the job tracker of the SideBar.

\* C4 (tracker termination), as claimed: once the status recorded for the
\* tracked task has become completed or failed, no GET /tasks/{id} is issued
\* for that task any more.
C4_NoPollAfterTerminal ==
    [][\A j \in TaskIds : terminal[j] # "no" => polls'[j] = polls[j]]_vars

\* C5 (completion callback exactly once), as claimed: for a tracked task whose
\* recorded status reached completed, getProgramList has been called exactly
\* once on its behalf.
C5_CallbackExactlyOnce ==
    \A j \in TaskIds : terminal[j] = "completed" => callbacks[j] = 1

\* C7 (teardown safety of the tracker), as claimed: the unmount that cancels a
\* pending interval leaves the recorded status as it is, and after it the
\* interval is never armed again and no poll response starts a reload of the
\* program list.
C7_NoCallAfterTeardown ==
    [][/\ (mounted /\ ~mounted') => taskStatus' = taskStatus
       /\ cancelled => (~pollIntervall' /\ callbacks' = callbacks)]_vars

\* The step applies the outcome of the status request rq of the tracked task:
\* the request leaves the bag, alone or replaced by the reload of the list.
Settles(rq) ==
    /\ rq \in Pending /\ rq.kind = "poll"
    /\ mounted /\ taskId = rq.job
    /\ \/ reqs' = Take(reqs, rq)
       \/ reqs' = Send(Take(reqs, rq), Req("list", rq.job, "unserved"))

\* C14 (poll result failed), as claimed: the step that applies a response with
\* status failed records the error and leaves the interval cleared, and once
\* failed has been recorded for the task no status request is issued for it
\* and the interval stays cleared.
C14_FailedStopsPolling ==
    [][\A j \in JobIds :
          /\ (terminal[j] # "failed" /\ terminal'[j] = "failed") =>
                (error' /\ ~pollIntervall' /\ taskStatus' = "failed")
          /\ terminal[j] = "failed" =>
                (polls'[j] = polls[j] /\ ~pollIntervall')]_vars

\* C15 (transient not-found), as claimed: when a status request of the tracked
\* task is answered 404 while the status is processing, no error is recorded,
\* the status stays processing and the interval stays armed.
C15_NotFoundKeepsPolling ==
    [][\A rq \in Pending :
          (Settles(rq) /\ rq.body = "notfound" /\ taskStatus = "processing") =>
              (error' = error /\ taskStatus' = "processing" /\ pollIntervall')]_vars

\* C16 (unknown poll error is terminal), as claimed: when a status request of
\* the tracked task fails before any response arrived (a network error, not
\* the transient not-found), the error is recorded and the interval is cleared.
C16_UnknownErrorStopsPolling ==
    [][\A rq \in Pending :
          (Settles(rq) /\ rq.body = "unserved" /\ taskStatus = "processing") =>
              (error' /\ ~pollIntervall')]_vars

\* C23 (no overlapping polls), as claimed: at most one status request per task
\* is outstanding at any time.
C23_NoOverlappingPolls ==
    \A rq \in Pending : rq.kind = "poll" =>
        /\ CopiesIn(rq, reqs) = 1
        /\ \A other \in Pending :
              (other.kind = "poll" /\ other.job = rq.job) => other = rq

\* The place of a status on pending -> processing -> {completed, failed}.
Rank(st) ==
    CASE st = "pending" -> 1
      [] st = "processing" -> 2
      [] st \in {"completed", "failed"} -> 3
      [] OTHER -> 0

\* C24 (status state machine), as claimed: while the same task is tracked, a
\* step that changes a recorded status of the machine changes it to a later
\* status of the machine, and a recorded completed or failed never changes.
C24_StatusOnlyForward ==
    [][(/\ taskId' = taskId /\ taskId # 0
        /\ Rank(taskStatus) > 0 /\ taskStatus' # taskStatus)
       => Rank(taskStatus') > Rank(taskStatus)]_vars

\* C25 (polling active iff processing): in every state the interval of the
\* effect is armed if and only if the component is mounted, a task is recorded
\* and its recorded status is processing.
C25_PollingIffProcessing ==
    pollIntervall <=> (mounted /\ taskId # 0 /\ taskStatus = "processing")

\* C25 witness: the task was polled while processing, failed has been
\* recorded for it and the interval is cleared.
C25_Witness ==
    /\ mounted /\ taskId # 0 /\ polls[taskId] >= 2
    /\ taskStatus = "failed" /\ ~pollIntervall

\* C28 (the loading indicator is never stuck), as claimed: in every state in
\* which the mounted component shows loading, the interval is armed or a
\* request of a submission or a poll is outstanding.
C28_LoadingNeverStuck ==
    (mounted /\ loading) => (pollIntervall \/ Pending # {})

\* C31 (ingest only after a successful upload), as claimed: the step in which
\* the upload request of a submission fails (the catch of the upload records
\* the error) sends no POST /program/ingest.
C31_NoIngestAfterFailedUpload ==
    [][(/\ BagIn(Req("upload", 0, "unserved"), reqs)
        /\ ~BagIn(Req("upload", 0, "unserved"), reqs')
        /\ ~error /\ error')
       => ~BagIn(Req("ingest", 0, "unserved"), reqs')]_vars

\* The claim below is checked under SpecJobs, the tracker with a second job.

\* C27 (poll results do not cross tasks), as claimed: the step that applies
\* the response of a status request of a task other than the tracked one
\* leaves the recorded status and the interval as they are.
C27_PollOfOtherTaskIgnored ==
    [][\A rq \in Pending :
          (/\ rq.kind = "poll" /\ rq.body # "unserved" /\ mounted
           /\ rq.job # 0 /\ taskId # 0 /\ rq.job # taskId
           /\ \/ reqs' = Take(reqs, rq)
              \/ reqs' = Send(Take(reqs, rq), Req("list", rq.job, "unserved")))
          => (taskStatus' = taskStatus /\ pollIntervall' = pollIntervall)]_vars

====
